---- MODULE Spec2Model ----
(***************************************************************************)
(* A model of the weather PWA (App component and service-worker           *)
(* registration): forecast window extraction, alert evaluation, the       *)
(* notification dispatcher, the favorites list and the search handler.    *)
(*                                                                         *)
(* Conventions.                                                            *)
(*  - A string of the program is a sequence of tokens; the token " " is    *)
(*    white space.  String concatenation is \o.                            *)
(*  - A nullable value is None (absent) or Some(v).                        *)
(*  - Timestamps are integers counted in quarters of an hour.              *)
(*  - Temperatures and wind speeds are integers counted in tenths.         *)
(***************************************************************************)
EXTENDS Integers, Sequences, FiniteSets, TLC

VARIABLES
    query,              \* useState: text of the search field
    favorites,          \* useState: ordered list of FavoriteCity
    selectedCity,       \* useState: FavoriteCity | null
    weather,            \* useState: WeatherResponse | null
    lastUpdated,        \* useState: Date | null
    isLoading,          \* useState
    error,              \* useState: string | null
    notificationState,  \* useState: NotificationState
    storedFavorites,    \* localStorage[STORAGE_KEY_FAVORITES]
    permission,         \* Notification.permission, or "unsupported"
    swState,            \* navigator.serviceWorker: unsupported/registering/active/failed
    permRequests,       \* handlers suspended in Notification.requestPermission()
    now,                \* Date.now()
    searches,           \* suspended handleSearch invocations, by id
    nextSearch,         \* id of the next handleSearch invocation
    dispatches,         \* suspended sendWeatherNotification invocations, by id
    nextDispatch,       \* id of the next sendWeatherNotification invocation
    swChannel,          \* set of notifications handed to registration.showNotification
    fgChannel,          \* set of notifications handed to new Notification(...)
    searchLog,          \* history: per search, its outcome and dispatcher calls
    writer,             \* history: search whose handler last wrote display state
    favLog,             \* history: the last favorites operation, and whether
                        \*          the store took the last write of the list
    notifLog,           \* history: per dispatcher call, the permission it saw
    callArgs,           \* arguments of a direct call of a pure function
    callResult,         \* its result
    theme,              \* useState: Theme
    storedTheme,        \* localStorage[STORAGE_KEY_THEME]
    prefersDark,        \* matchMedia('(prefers-color-scheme: dark)').matches
    themeLog            \* history: the last explicit toggle that was persisted

vars == << query, favorites, selectedCity, weather, lastUpdated, isLoading,
           error, notificationState, storedFavorites, permission, swState,
           permRequests, now, searches, nextSearch, dispatches, nextDispatch,
           swChannel, fgChannel, searchLog, writer, favLog, notifLog,
           callArgs, callResult, theme, storedTheme, prefersDark,
           themeLog >>

themeVars == << theme, storedTheme, prefersDark, themeLog >>

None == << >>
Some(v) == << v >>
The(o) == o[1]

Min(a, b) == IF a < b THEN a ELSE b
Max(a, b) == IF a > b THEN a ELSE b

----------------------------------------------------------------------------
(* Program constants *)

RAIN_CODES ==
    { 51, 53, 55, 56, 57, 61, 63, 65, 66, 67, 71, 73, 75, 77, 80, 81, 82,
      85, 86, 95, 96, 99 }
TEMP_THRESHOLD == 10
HOUR_LOOKAHEAD == 4
FAVORITES_CAPACITY == 8
\* 3_600_000 ms, in quarters of an hour
HOUR == 4

\* Math.round on a quotient n / d (d > 0): the nearest integer, halves up
RoundDiv(n, d) == (2 * n + d) \div (2 * d)
\* Math.round on a value counted in tenths
RoundTenths(t) == RoundDiv(t, 10)

----------------------------------------------------------------------------
(* getNextHours *)

HourlySlice(hourly, i) ==
    [ date |-> hourly.time[i],
      temperature |-> hourly.temperature_2m[i],
      weatherCode |-> hourly.weather_code[i],
      precipitation |->
          IF hourly.precipitation_probability = None THEN None
          ELSE hourly.precipitation_probability[1][i] ]

RECURSIVE NextHoursLoop(_, _, _, _, _)
NextHoursLoop(hourly, count, t, i, slices) ==
    IF i > Len(hourly.time) THEN slices
    ELSE IF hourly.time[i] <= t
         THEN NextHoursLoop(hourly, count, t, i + 1, slices)
         ELSE LET pushed == Append(slices, HourlySlice(hourly, i))
              IN  IF Len(pushed) = count THEN pushed
                  ELSE NextHoursLoop(hourly, count, t, i + 1, pushed)

getNextHours(hourly, count, t) == NextHoursLoop(hourly, count, t, 1, << >>)

----------------------------------------------------------------------------
(* Strings *)

IsSpace(tok) == tok = " "

RECURSIVE TrimStart(_)
TrimStart(s) ==
    IF s # << >> /\ IsSpace(Head(s)) THEN TrimStart(Tail(s)) ELSE s

RECURSIVE TrimEnd(_)
TrimEnd(s) ==
    IF s # << >> /\ IsSpace(s[Len(s)])
    THEN TrimEnd(SubSeq(s, 1, Len(s) - 1)) ELSE s

\* String.prototype.trim
Trim(s) == TrimEnd(TrimStart(s))

\* formatCityName: result.admin1 and result.country are optional; an absent
\* or empty one is falsy
formatCityName(result) ==
    LET area == IF result.admin1 # << >> THEN << ", " >> \o result.admin1
                ELSE << >>
        country == IF result.country # << >> THEN << ", " >> \o result.country
                   ELSE << >>
    IN  Trim(result.name \o area \o country)

----------------------------------------------------------------------------
(* sendWeatherNotification, the dispatcher *)

\* Options whose tag does not depend on the title
NotificationOptionsFixedTag(title, body) ==
    [ body |-> body, tag |-> << "meteo-alert-" >> ]

NotificationOptions(title, body) ==
    [ body |-> body, tag |-> << "meteo-alert-" >> \o title ]

\* The dispatcher's part of the state, threaded through the calls one
\* handler makes.
DispatcherState ==
    [ dispatches |-> dispatches, nextDispatch |-> nextDispatch,
      fgChannel |-> fgChannel, notifLog |-> notifLog ]

\* new Notification(title, options), inside the finally block
DirectNotification(st, id, title, options, perm) ==
    st.fgChannel \cup
        { [ id |-> id, title |-> title, tag |-> options.tag, perm |-> perm ] }

\* A call that returns at one of the two permission tests
ReturnEarly(st, perm, title) ==
    [ st EXCEPT !.notifLog =
          Append(@, [ id |-> 0, title |-> title, perm |-> perm ]) ]

\* A call that passed the permission tests: it suspends in
\* `await navigator.serviceWorker.ready`, or (no service-worker support)
\* falls through to the finally block.
StartDispatch(st, perm, sw, title, body) ==
    LET id == st.nextDispatch
        options == NotificationOptions(title, body)
        logged == Append(st.notifLog,
                         [ id |-> id, title |-> title, perm |-> perm ])
    IN  IF sw # "unsupported"
        THEN [ st EXCEPT
                 !.dispatches =
                     [ d \in DOMAIN @ \cup { id } |->
                         IF d = id
                         THEN [ title |-> title, options |-> options,
                                pc |-> "ready" ]
                         ELSE @[d] ],
                 !.nextDispatch = id + 1,
                 !.notifLog = logged ]
        ELSE [ st EXCEPT
                 !.fgChannel =
                     DirectNotification(st, id, title, options, perm),
                 !.nextDispatch = id + 1,
                 !.notifLog = logged ]

\* A dispatcher without the test `Notification.permission !== 'granted'`
sendWeatherNotificationUngated(st, perm, sw, title, body) ==
    IF perm = "unsupported"
    THEN ReturnEarly(st, perm, title)
    ELSE StartDispatch(st, perm, sw, title, body)

\* The synchronous part of one call sendWeatherNotification(title, body),
\* made while the platform reports permission perm and service-worker
\* support sw.
sendWeatherNotification(st, perm, sw, title, body) ==
    IF perm = "unsupported" \/ perm # "granted"
    THEN ReturnEarly(st, perm, title)
    ELSE StartDispatch(st, perm, sw, title, body)

\* A handler's calls, in order: calls is a sequence of [title, body].
RECURSIVE SendAll(_, _, _, _)
SendAll(st, perm, sw, calls) ==
    IF calls = << >> THEN st
    ELSE SendAll(sendWeatherNotification(st, perm, sw,
                                         Head(calls).title, Head(calls).body),
                 perm, sw, Tail(calls))

\* The assignment of the dispatcher's variables after a handler's calls.
Dispatched(calls, perm) ==
    LET st == SendAll(DispatcherState, perm, swState, calls)
    IN  /\ dispatches' = st.dispatches
        /\ nextDispatch' = st.nextDispatch
        /\ fgChannel' = st.fgChannel
        /\ notifLog' = st.notifLog

\* `await navigator.serviceWorker.ready` resumes once a worker is active:
\* registration.showNotification(title, options) is called.
ShowNotification(d) ==
    /\ d \in DOMAIN dispatches
    /\ dispatches[d].pc = "ready"
    /\ swState = "active"
    /\ swChannel' = swChannel \cup
                        { [ id |-> d, title |-> dispatches[d].title,
                            tag |-> dispatches[d].options.tag,
                            perm |-> permission, result |-> "pending" ] }
    /\ dispatches' = [ dispatches EXCEPT ![d].pc = "show" ]
    /\ UNCHANGED << query, favorites, selectedCity, weather, lastUpdated,
                    isLoading, error, notificationState, storedFavorites,
                    permission, swState, permRequests, now, searches,
                    nextSearch, nextDispatch, fgChannel, searchLog, writer,
                    favLog, notifLog, callArgs, callResult >>
    /\ UNCHANGED themeVars

SettleEntry(ch, d, result) ==
    { IF e.id = d THEN [ e EXCEPT !.result = result ] ELSE e : e \in ch }

\* registration.showNotification settles: resolved (shown) or rejected
\* (caught and logged); either way the finally block runs
\* new Notification(title, options).
ShowSettled(d, result) ==
    /\ d \in DOMAIN dispatches
    /\ dispatches[d].pc = "show"
    /\ swChannel' = SettleEntry(swChannel, d, result)
    /\ fgChannel' = DirectNotification(DispatcherState, d, dispatches[d].title,
                                       dispatches[d].options, permission)
    /\ dispatches' = [ e \in DOMAIN dispatches \ { d } |-> dispatches[e] ]
    /\ UNCHANGED << query, favorites, selectedCity, weather, lastUpdated,
                    isLoading, error, notificationState, storedFavorites,
                    permission, swState, permRequests, now, searches,
                    nextSearch, nextDispatch, searchLog, writer, favLog,
                    notifLog, callArgs, callResult >>
    /\ UNCHANGED themeVars

\* main.tsx: navigator.serviceWorker.register(...) settles
RegistrationSettled(ok) ==
    /\ swState = "registering"
    /\ swState' = IF ok THEN "active" ELSE "failed"
    /\ UNCHANGED << query, favorites, selectedCity, weather, lastUpdated,
                    isLoading, error, notificationState, storedFavorites,
                    permission, permRequests, now, searches, nextSearch,
                    dispatches, nextDispatch, swChannel, fgChannel, searchLog,
                    writer, favLog, notifLog, callArgs, callResult >>
    /\ UNCHANGED themeVars

----------------------------------------------------------------------------
(* checkAlerts *)

\* Array.prototype.find, given the indexes of the elements that satisfy the
\* predicate: the first of them, or 0 when there is none
Find(hits) ==
    IF hits = { } THEN 0 ELSE CHOOSE i \in hits : \A j \in hits : i <= j

IsRainSlice(slice) == slice.weatherCode \in RAIN_CODES

\* A heat test that accepts the threshold itself
IsWarmSliceInclusive(slice) == slice.temperature >= TEMP_THRESHOLD * 10

IsWarmSlice(slice) == slice.temperature > TEMP_THRESHOLD * 10

\* A rain alert whose delay is not floored at one hour
RainNotificationNoFloor(slice, cityLabel, t) ==
    [ title |-> << "Pluie attendue - " >> \o cityLabel,
      body |-> [ text |-> "Des averses sont prevues d'ici {a} h. Pensez au parapluie !",
                 a |-> RoundDiv(slice.date - t, HOUR), b |-> 0 ] ]

RainNotification(slice, cityLabel, t) ==
    [ title |-> << "Pluie attendue - " >> \o cityLabel,
      body |-> [ text |-> "Des averses sont prevues d'ici {a} h. Pensez au parapluie !",
                 a |-> Max(1, RoundDiv(slice.date - t, HOUR)), b |-> 0 ] ]

HeatNotification(slice, cityLabel) ==
    [ title |-> << "Chaleur a venir - " >> \o cityLabel,
      body |-> [ text |-> "La temperature depassera {a} C (~ {b} C).",
                 a |-> TEMP_THRESHOLD,
                 b |-> RoundTenths(slice.temperature) ] ]

\* An alert check that raises a rain alert for every rainy slice
checkAlertsEverySlice(data, cityLabel, t) ==
    LET slices == getNextHours(data.hourly, HOUR_LOOKAHEAD, t)
        rainAlerts[ i \in 0 .. Len(slices) ] ==
            IF i = 0 THEN << >>
            ELSE IF IsRainSlice(slices[i])
                 THEN Append(rainAlerts[i - 1],
                             RainNotification(slices[i], cityLabel, t))
                 ELSE rainAlerts[i - 1]
        warmSlice == Find({ i \in DOMAIN slices : IsWarmSlice(slices[i]) })
    IN  rainAlerts[Len(slices)]
        \o
        (IF warmSlice # 0
         THEN << HeatNotification(slices[warmSlice], cityLabel) >>
         ELSE << >>)

\* The calls of sendWeatherNotification that checkAlerts(data, cityLabel)
\* makes at time t, in order.
checkAlerts(data, cityLabel, t) ==
    LET slices == getNextHours(data.hourly, HOUR_LOOKAHEAD, t)
        rainSlice == Find({ i \in DOMAIN slices : IsRainSlice(slices[i]) })
        warmSlice == Find({ i \in DOMAIN slices : IsWarmSlice(slices[i]) })
    IN  (IF rainSlice # 0
         THEN << RainNotification(slices[rainSlice], cityLabel, t) >>
         ELSE << >>)
        \o
        (IF warmSlice # 0
         THEN << HeatNotification(slices[warmSlice], cityLabel) >>
         ELSE << >>)

----------------------------------------------------------------------------
(* fetchWeatherData, geocodeCity: the outcome of a settled request *)

\* A geocoder whose not-found message does not name the value
geocodeCityAnonymous(value, resp) ==
    IF resp.kind = "networkError"
    THEN [ ok |-> FALSE, location |-> None,
           message |-> << "Failed to fetch" >> ]
    ELSE IF resp.kind = "httpError"
    THEN [ ok |-> FALSE, location |-> None,
           message |-> << "Erreur de geocodage. Verifiez votre connexion." >> ]
    ELSE IF resp.results = None \/ Len(The(resp.results)) = 0
    THEN [ ok |-> FALSE, location |-> None,
           message |-> << "La ville est introuvable." >> ]
    ELSE LET result == The(resp.results)[1]
         IN  [ ok |-> TRUE,
               location |-> Some([ name |-> formatCityName(result),
                                   lat |-> result.latitude,
                                   lon |-> result.longitude ]),
               message |-> << >> ]

\* A geocoding response is [kind, results]: kind "networkError" (fetch
\* rejects), "httpError" (!response.ok) or "ok"; results is the optional
\* array data.results.  The outcome is [ok, location, message].
geocodeCity(value, resp) ==
    IF resp.kind = "networkError"
    THEN [ ok |-> FALSE, location |-> None,
           message |-> << "Failed to fetch" >> ]
    ELSE IF resp.kind = "httpError"
    THEN [ ok |-> FALSE, location |-> None,
           message |-> << "Erreur de geocodage. Verifiez votre connexion." >> ]
    ELSE IF resp.results = None \/ Len(The(resp.results)) = 0
    THEN [ ok |-> FALSE, location |-> None,
           message |-> << "La ville \"" >> \o value
                          \o << "\" est introuvable." >> ]
    ELSE LET result == The(resp.results)[1]
         IN  [ ok |-> TRUE,
               location |-> Some([ name |-> formatCityName(result),
                                   lat |-> result.latitude,
                                   lon |-> result.longitude ]),
               message |-> << >> ]

\* A weather response is [kind, data].  The outcome is [ok, data, message].
fetchWeatherData(resp) ==
    IF resp.kind = "networkError"
    THEN [ ok |-> FALSE, data |-> None, message |-> << "Failed to fetch" >> ]
    ELSE IF resp.kind = "httpError"
    THEN [ ok |-> FALSE, data |-> None,
           message |->
               << "Erreur lors de la recuperation des donnees meteo" >> ]
    ELSE [ ok |-> TRUE, data |-> resp.data, message |-> << >> ]

----------------------------------------------------------------------------
(* handleSearch *)

RefreshNotification(data, location) ==
    [ title |-> << "Meteo actualisee - " >> \o location.name,
      body |-> [ text |-> "Actuellement {a} C avec un vent de {b} km/h.",
                 a |-> RoundTenths(data.current.temperature_2m),
                 b |-> RoundTenths(data.current.wind_speed_10m) ] ]

Without(f, k) == [ x \in DOMAIN f \ { k } |-> f[x] ]
With(f, k, v) == [ x \in DOMAIN f \cup { k } |-> IF x = k THEN v ELSE f[x] ]

ValidationMessage == << "Veuillez saisir une ville." >>

\* The early return of handleSearch for an empty value
RejectSearch ==
    /\ error' = Some(ValidationMessage)
    /\ UNCHANGED << selectedCity, isLoading, searches, nextSearch,
                    searchLog, writer >>

\* handleSearch past its validation, up to its first suspension: in the
\* geocoding request, or (with a preset) in the weather request
StartSearch(preset, value) ==
    LET id == nextSearch
    IN  /\ isLoading' = TRUE
        /\ error' = None
        /\ nextSearch' = id + 1
        /\ writer' = id
        /\ searchLog' =
               With(searchLog, id,
                    [ outcome |-> "pending", preset |-> preset # None,
                      value |-> value, calls |-> << >>, data |-> None,
                      at |-> 0 ])
        /\ IF preset # None
           THEN /\ selectedCity' = preset
                /\ searches' = With(searches, id,
                                    [ pc |-> "weather", value |-> value,
                                      location |-> preset ])
           ELSE /\ UNCHANGED selectedCity
                /\ searches' = With(searches, id,
                                    [ pc |-> "geocode", value |-> value,
                                      location |-> None ])

\* A search that tests the candidate without trimming it
handleSearchUntrimmed(preset, q) ==
    LET candidate == IF preset # None THEN The(preset).name ELSE q
    IN  IF candidate = << >>
        THEN RejectSearch
        ELSE StartSearch(preset, Trim(candidate))

\* handleSearch(preset) up to its first suspension.  preset is the optional
\* favorite; q is the text of the search field the callback closes over.
handleSearch(preset, q) ==
    LET candidate == IF preset # None THEN The(preset).name ELSE q
        value == Trim(candidate)
    IN  IF value = << >>
        THEN RejectSearch
        ELSE StartSearch(preset, value)

\* The submit button is disabled while isLoading, and the field is
\* `required`: the browser submits the form only with a non-empty field.
handleSubmit ==
    /\ ~isLoading
    /\ query # << >>
    /\ handleSearch(None, query)
    /\ UNCHANGED << query, favorites, weather, lastUpdated, notificationState,
                    storedFavorites, permission, swState, permRequests, now,
                    dispatches, nextDispatch, swChannel, fgChannel, favLog,
                    notifLog, callArgs, callResult >>
    /\ UNCHANGED themeVars

\* onClick of a favorite's button: setQuery(favorite.name), then
\* handleSearch(favorite), which runs without suspending up to the weather
\* request.
FavoriteClick(i) ==
    /\ i \in DOMAIN favorites
    /\ query' = favorites[i].name
    /\ handleSearch(Some(favorites[i]), query)
    /\ UNCHANGED << favorites, weather, lastUpdated, notificationState,
                    storedFavorites, permission, swState, permRequests, now,
                    dispatches, nextDispatch, swChannel, fgChannel, favLog,
                    notifLog, callArgs, callResult >>
    /\ UNCHANGED themeVars

\* A failure that leaves the displayed weather in place
SearchFailedKeepsWeather(s, message) ==
    /\ UNCHANGED weather
    /\ error' = Some(message)
    /\ isLoading' = FALSE
    /\ searches' = Without(searches, s)
    /\ searchLog' = [ searchLog EXCEPT ![s].outcome = "failed" ]
    /\ writer' = s

\* The catch and finally blocks of handleSearch, for search s failing with
\* message.
SearchFailed(s, message) ==
    /\ weather' = None
    /\ error' = Some(message)
    /\ isLoading' = FALSE
    /\ searches' = Without(searches, s)
    /\ searchLog' = [ searchLog EXCEPT ![s].outcome = "failed" ]
    /\ writer' = s

\* The geocoding request of search s settles with resp.
GeocodeSettled(s, resp) ==
    /\ s \in DOMAIN searches
    /\ searches[s].pc = "geocode"
    /\ LET out == geocodeCity(searches[s].value, resp)
       IN  IF out.ok
           THEN /\ selectedCity' = out.location
                /\ query' = The(out.location).name
                /\ searches' = [ searches EXCEPT ![s].pc = "weather",
                                                 ![s].location = out.location ]
                /\ writer' = s
                /\ UNCHANGED << weather, error, isLoading, searchLog >>
           ELSE /\ SearchFailed(s, out.message)
                /\ UNCHANGED << selectedCity, query >>
    /\ UNCHANGED << favorites, lastUpdated, notificationState,
                    storedFavorites, permission, swState, permRequests, now,
                    nextSearch, dispatches, nextDispatch, swChannel, fgChannel, favLog,
                    notifLog, callArgs, callResult >>
    /\ UNCHANGED themeVars

\* The weather request of search s settles with resp.
WeatherSettled(s, resp) ==
    /\ s \in DOMAIN searches
    /\ searches[s].pc = "weather"
    /\ LET out == fetchWeatherData(resp)
           location == The(searches[s].location)
       IN  IF out.ok
           THEN LET data == The(out.data)
                    calls == << RefreshNotification(data, location) >>
                             \o checkAlerts(data, location.name, now)
                IN  /\ weather' = out.data
                    /\ lastUpdated' = Some(now)
                    /\ Dispatched(calls, permission)
                    /\ isLoading' = FALSE
                    /\ searches' = Without(searches, s)
                    /\ searchLog' = [ searchLog EXCEPT
                                        ![s].outcome = "ok",
                                        ![s].calls = calls,
                                        ![s].data = out.data,
                                        ![s].at = now ]
                    /\ writer' = s
                    /\ UNCHANGED error
           ELSE /\ SearchFailed(s, out.message)
                /\ UNCHANGED << lastUpdated, dispatches, nextDispatch,
                                fgChannel, notifLog >>
    /\ UNCHANGED << query, favorites, selectedCity, notificationState,
                    storedFavorites, permission, swState, permRequests, now,
                    nextSearch, swChannel, favLog, callArgs, callResult >>
    /\ UNCHANGED themeVars

\* onChange of the search field
setQuery(text) ==
    /\ query' = text
    /\ UNCHANGED << favorites, selectedCity, weather, lastUpdated, isLoading,
                    error, notificationState, storedFavorites, permission,
                    swState, permRequests, now, searches, nextSearch,
                    dispatches, nextDispatch, swChannel, fgChannel, searchLog,
                    writer, favLog, notifLog, callArgs, callResult >>
    /\ UNCHANGED themeVars

----------------------------------------------------------------------------
(* Favorites *)

\* JSON.stringify / JSON.parse of a FavoriteCity[]: an object is written as
\* its keys, its string values and its number values
JSONStringify(list) ==
    [ i \in DOMAIN list |->
        [ keys |-> << "name", "lat", "lon" >>,
          strings |-> << list[i].name >>,
          numbers |-> << list[i].lat, list[i].lon >> ] ]

JSONParse(text) ==
    [ i \in DOMAIN text |->
        [ name |-> text[i].strings[1],
          lat |-> text[i].numbers[1],
          lon |-> text[i].numbers[2] ] ]

\* A write of the list as it was before the update
persistStorageStale(value, accepted) ==
    storedFavorites' =
        IF accepted THEN Some(JSONStringify(favorites)) ELSE storedFavorites

\* persistStorage(STORAGE_KEY_FAVORITES, value): setItem may throw (quota),
\* which is caught and logged
persistStorage(value, accepted) ==
    storedFavorites' =
        IF accepted THEN Some(JSONStringify(value)) ELSE storedFavorites

\* readStorage(STORAGE_KEY_FAVORITES, [])
readStorage(stored) == IF stored = None THEN << >> ELSE JSONParse(The(stored))

HasName(list, name) == \E i \in DOMAIN list : list[i].name = name

\* Array.prototype.filter
RECURSIVE FilterOutName(_, _)
FilterOutName(list, name) ==
    IF list = << >> THEN << >>
    ELSE IF Head(list).name # name
         THEN << Head(list) >> \o FilterOutName(Tail(list), name)
         ELSE FilterOutName(Tail(list), name)

\* A save without the slice to the capacity
SaveUpdaterNoLimit(prev, city) ==
    IF HasName(prev, city.name) THEN prev ELSE << city >> \o prev

\* A save that appends at the end
SaveUpdaterAppend(prev, city) ==
    IF HasName(prev, city.name) THEN prev
    ELSE SubSeq(prev \o << city >>, 1,
                Min(FAVORITES_CAPACITY, Len(prev) + 1))

\* The updater of handleFavoriteSave
SaveUpdater(prev, city) ==
    IF HasName(prev, city.name) THEN prev
    ELSE SubSeq(<< city >> \o prev, 1,
                Min(FAVORITES_CAPACITY, Len(prev) + 1))

\* A removal that drops the entry after the named one as well
RECURSIVE RemoveUpdaterGreedy(_, _)
RemoveUpdaterGreedy(prev, name) ==
    IF prev = << >> THEN << >>
    ELSE IF Head(prev).name = name
         THEN (IF Tail(prev) = << >> THEN << >> ELSE Tail(Tail(prev)))
         ELSE << Head(prev) >> \o RemoveUpdaterGreedy(Tail(prev), name)

\* The updater of handleFavoriteRemove
RemoveUpdater(prev, name) == FilterOutName(prev, name)

\* handleFavoriteSave, with the effect that persists a changed list.  The
\* updater returns prev itself for a known name: no render, no effect.
handleFavoriteSave(accepted) ==
    /\ selectedCity # None
    /\ favorites' = SaveUpdater(favorites, The(selectedCity))
    /\ IF HasName(favorites, The(selectedCity).name)
       THEN UNCHANGED storedFavorites
       ELSE persistStorage(favorites', accepted)
    /\ favLog' = [ op |-> "save", name |-> The(selectedCity).name,
                   city |-> selectedCity, before |-> favorites,
                   written |-> IF HasName(favorites, The(selectedCity).name)
                               THEN favLog.written ELSE accepted ]
    /\ UNCHANGED << query, selectedCity, weather, lastUpdated, isLoading,
                    error, notificationState, permission, swState,
                    permRequests, now, searches, nextSearch, dispatches,
                    nextDispatch, swChannel, fgChannel, searchLog, writer,
                    notifLog, callArgs, callResult >>
    /\ UNCHANGED themeVars

\* handleFavoriteRemove(name), with the effect that persists the new list
handleFavoriteRemove(name, accepted) ==
    /\ favorites' = RemoveUpdater(favorites, name)
    /\ persistStorage(favorites', accepted)
    /\ favLog' = [ op |-> "remove", name |-> name, city |-> None,
                   before |-> favorites, written |-> accepted ]
    /\ UNCHANGED << query, selectedCity, weather, lastUpdated, isLoading,
                    error, notificationState, permission, swState,
                    permRequests, now, searches, nextSearch, dispatches,
                    nextDispatch, swChannel, fgChannel, searchLog, writer,
                    notifLog, callArgs, callResult >>
    /\ UNCHANGED themeVars

----------------------------------------------------------------------------
(* Notification permission *)

\* A reading of the permission that takes "denied" for "prompt"
getNotificationStateLenient(perm) ==
    IF perm = "unsupported" THEN "unsupported"
    ELSE IF perm = "granted" THEN "granted"
    ELSE "prompt"

\* getNotificationState: perm is Notification.permission, or "unsupported"
\* when window has no Notification
getNotificationState(perm) ==
    IF perm = "unsupported" THEN "unsupported"
    ELSE IF perm = "granted" THEN "granted"
    ELSE IF perm = "denied" THEN "denied"
    ELSE "prompt"

ActiveNotification ==
    [ title |-> << "Alertes Meteo actives" >>,
      body |-> [ text |->
                     "Nous vous prevenons en cas de pluie ou de chaleur.",
                 a |-> 0, b |-> 0 ] ]

EnabledNotification ==
    [ title |-> << "Notifications activees" >>,
      body |-> [ text |->
                     "Vous recevrez des alertes pour cette session meteo.",
                 a |-> 0, b |-> 0 ] ]

\* handleNotificationRequest up to its suspension in
\* Notification.requestPermission().  The button is disabled while the
\* tracked state is "unsupported".
handleNotificationRequest ==
    /\ notificationState # "unsupported"
    /\ LET state == getNotificationState(permission)
       IN  CASE state = "unsupported" ->
                  UNCHANGED << notificationState, error, permRequests,
                               dispatches, nextDispatch, fgChannel, notifLog >>
             [] state = "denied" ->
                  /\ notificationState' = "denied"
                  /\ error' = Some(<< "Les notifications sont bloquees par votre navigateur. Activez-les dans les reglages." >>)
                  /\ UNCHANGED << permRequests, dispatches, nextDispatch,
                                  fgChannel, notifLog >>
             [] state = "granted" ->
                  /\ notificationState' = "granted"
                  /\ Dispatched(<< ActiveNotification >>, permission)
                  /\ UNCHANGED << error, permRequests >>
             [] state = "prompt" ->
                  /\ permRequests' = permRequests + 1
                  /\ UNCHANGED << notificationState, error, dispatches,
                                  nextDispatch, fgChannel, notifLog >>
    /\ UNCHANGED << query, favorites, selectedCity, weather, lastUpdated,
                    isLoading, storedFavorites, permission, swState, now,
                    searches, nextSearch, swChannel, searchLog, writer,
                    favLog, callArgs, callResult >>
    /\ UNCHANGED themeVars

\* Notification.requestPermission() settles for one suspended handler:
\* answer is "granted", "denied", "default" (the prompt was dismissed) or
\* "error" (the promise rejects).  The platform keeps an answer once the
\* user has decided.
PermissionSettled(answer) ==
    /\ permRequests > 0
    /\ permission \in { "granted", "denied" } => answer = permission
    /\ permRequests' = permRequests - 1
    /\ permission' = IF answer \in { "granted", "denied" } THEN answer
                     ELSE permission
    /\ CASE answer = "granted" ->
              /\ notificationState' = "granted"
              /\ Dispatched(<< EnabledNotification >>, permission')
         [] answer = "denied" ->
              /\ notificationState' = "denied"
              /\ UNCHANGED << dispatches, nextDispatch, fgChannel, notifLog >>
         [] answer = "default" ->
              /\ notificationState' = "prompt"
              /\ UNCHANGED << dispatches, nextDispatch, fgChannel, notifLog >>
         [] answer = "error" ->
              UNCHANGED << notificationState, dispatches, nextDispatch,
                           fgChannel, notifLog >>
    /\ UNCHANGED << query, favorites, selectedCity, weather, lastUpdated,
                    isLoading, error, storedFavorites, swState, now, searches,
                    nextSearch, swChannel, searchLog, writer, favLog,
                    callArgs, callResult >>
    /\ UNCHANGED themeVars

----------------------------------------------------------------------------
(* Theme *)

\* JSON.stringify of a string: the string between double quotes
JSONStringifyText(text) == << "\"" >> \o text \o << "\"" >>

\* getStoredTheme: stored is the raw item of STORAGE_KEY_THEME, dark is
\* what matchMedia('(prefers-color-scheme: dark)') answers
getStoredTheme(stored, dark) ==
    IF stored = Some(<< "light" >>) THEN "light"
    ELSE IF stored = Some(<< "dark" >>) THEN "dark"
    ELSE IF dark THEN "dark" ELSE "light"

\* persistStorage(STORAGE_KEY_THEME, value), in the effect on [theme]
persistTheme(value, accepted) ==
    storedTheme' =
        IF accepted THEN Some(JSONStringifyText(<< value >>)) ELSE storedTheme

\* onCheckedChange of the theme switch, with the effect that persists a
\* changed theme.  setTheme with the current theme renders nothing.
setTheme(checked, accepted) ==
    /\ theme' = IF checked THEN "dark" ELSE "light"
    /\ IF theme' = theme
       THEN UNCHANGED << storedTheme, themeLog >>
       ELSE /\ persistTheme(theme', accepted)
            /\ themeLog' = IF accepted THEN Some(theme') ELSE None
    /\ UNCHANGED << query, favorites, selectedCity, weather, lastUpdated,
                    isLoading, error, notificationState, storedFavorites,
                    permission, swState, permRequests, now, searches,
                    nextSearch, dispatches, nextDispatch, swChannel,
                    fgChannel, searchLog, writer, favLog, notifLog, callArgs,
                    callResult, prefersDark >>

----------------------------------------------------------------------------
(* Initial states *)

\* The component renders for the first time: nothing searched, nothing
\* suspended, nothing delivered.
FreshSession ==
    /\ query = << >>
    /\ selectedCity = None
    /\ weather = None
    /\ lastUpdated = None
    /\ isLoading = FALSE
    /\ error = None
    /\ notificationState = getNotificationState(permission)
    /\ permRequests = 0
    /\ searches = << >>
    /\ nextSearch = 1
    /\ dispatches = << >>
    /\ nextDispatch = 1
    /\ swChannel = { }
    /\ fgChannel = { }
    /\ searchLog = << >>
    /\ writer = 0
    /\ favLog = [ op |-> "none", name |-> << >>, city |-> None,
                  before |-> << >>, written |-> TRUE ]
    /\ notifLog = << >>

\* useState(() => readStorage(...)), then the mount effect that persists
\* the list read
LoadedFavorites(stored) ==
    /\ favorites = readStorage(stored)
    /\ storedFavorites = Some(JSONStringify(readStorage(stored)))

NoDirectCall == callArgs = None /\ callResult = None

\* useState(() => getStoredTheme()), then the mount effect that persists
\* the theme read
LoadedTheme(stored, dark) ==
    /\ prefersDark = dark
    /\ theme = getStoredTheme(stored, dark)
    /\ storedTheme = Some(JSONStringifyText(<< theme >>))
    /\ themeLog = None

----------------------------------------------------------------------------
(* Direct calls of getNextHours and checkAlerts *)

MaxTime == 6
MaxSeriesLen == 6
MaxCount == 5

RECURSIVE Ascending(_)
Ascending(S) ==
    IF S = { } THEN << >>
    ELSE LET m == CHOOSE x \in S : \A y \in S : x <= y
         IN  << m >> \o Ascending(S \ { m })

\* Hourly series with strictly ascending timestamps; the temperature and
\* the weather code of a sample are told apart by its timestamp.
SeriesOf(times, withPrecipitation) ==
    [ time |-> times,
      temperature_2m |-> [ i \in DOMAIN times |-> 10 * times[i] ],
      weather_code |-> [ i \in DOMAIN times |-> times[i] ],
      precipitation_probability |->
          IF withPrecipitation
          THEN Some([ i \in DOMAIN times |-> Some(5 * times[i]) ])
          ELSE None ]

ExtractInputs ==
    { [ hourly |-> SeriesOf(Ascending(S), p), count |-> c, t |-> t,
        cityLabel |-> << >> ] :
        S \in { X \in SUBSET (1 .. MaxTime) : Cardinality(X) <= MaxSeriesLen },
        p \in BOOLEAN, c \in 0 .. MaxCount, t \in 0 .. MaxTime }

InitExtract ==
    /\ LoadedTheme(None, FALSE)
    /\ callArgs \in { Some(a) : a \in ExtractInputs }
    /\ callResult = None
    /\ permission = "default"
    /\ swState = "unsupported"
    /\ now = 0
    /\ LoadedFavorites(None)
    /\ FreshSession

CallGetNextHours ==
    /\ callArgs # None
    /\ callResult = None
    /\ callResult' = Some(getNextHours(The(callArgs).hourly,
                                       The(callArgs).count, The(callArgs).t))
    /\ UNCHANGED << query, favorites, selectedCity, weather, lastUpdated,
                    isLoading, error, notificationState, storedFavorites,
                    permission, swState, permRequests, now, searches,
                    nextSearch, dispatches, nextDispatch, swChannel,
                    fgChannel, searchLog, writer, favLog, notifLog, callArgs >>
    /\ UNCHANGED themeVars

NextExtract == CallGetNextHours

SpecExtract == InitExtract /\ [][NextExtract]_vars

\* The indices of the samples of a series that lie after t
SamplesAfter(hourly, t) == { i \in DOMAIN hourly.time : hourly.time[i] > t }

\* out is the window the contract of the extractor describes for (hourly,
\* count, t): min(count, #samples after t) slices, all after t, strictly
\* increasing, the earliest such samples, each carrying its sample's values.
IsContractWindow(out, hourly, count, t) ==
    LET after == SamplesAfter(hourly, t)
    IN  /\ Len(out) = Min(count, Cardinality(after))
        /\ \A k \in DOMAIN out : out[k].date > t
        /\ \A k \in DOMAIN out : k < Len(out) => out[k].date < out[k + 1].date
        /\ \A k \in DOMAIN out :
              \E i \in after :
                  /\ out[k].date = hourly.time[i]
                  /\ out[k].temperature = hourly.temperature_2m[i]
                  /\ out[k].weatherCode = hourly.weather_code[i]
                  /\ out[k].precipitation =
                         (IF hourly.precipitation_probability = None THEN None
                          ELSE The(hourly.precipitation_probability)[i])
        /\ \A i \in after :
              \/ \E k \in DOMAIN out : out[k].date = hourly.time[i]
              \/ \A k \in DOMAIN out : out[k].date < hourly.time[i]

\* C5: for every hourly series in ascending time order, every `now` and
\* every count >= 0, getNextHours returns min(count, #samples after now)
\* slices, all strictly after now, strictly increasing, the earliest ones.
C5_WindowForEveryCount ==
    callResult # None =>
        IsContractWindow(The(callResult), The(callArgs).hourly,
                         The(callArgs).count, The(callArgs).t)

\* The same for every count >= 1, the counts for which the loop's test
\* `slices.length === count` can be met.
WindowForPositiveCount ==
    (callResult # None /\ The(callArgs).count >= 1) =>
        IsContractWindow(The(callResult), The(callArgs).hourly,
                         The(callArgs).count, The(callArgs).t)

----------------------------------------------------------------------------
(* Direct calls of checkAlerts *)

MaxAlertLen == 5
MaxAlertNow == 6

\* [weather code, temperature in tenths] of a sample: dry at the threshold,
\* rain below it, dry just above it, storm and hot, showers just above it
SampleKinds ==
    { << 0, 100 >>, << 61, 95 >>, << 3, 104 >>, << 95, 155 >>, << 80, 101 >> }

\* One sample per hour, on the hour
HourlyOf(kinds) ==
    [ time |-> [ i \in DOMAIN kinds |-> HOUR * i ],
      temperature_2m |-> [ i \in DOMAIN kinds |-> kinds[i][2] ],
      weather_code |-> [ i \in DOMAIN kinds |-> kinds[i][1] ],
      precipitation_probability |-> None ]

AlertInputs ==
    { [ hourly |-> HourlyOf(k), count |-> HOUR_LOOKAHEAD, t |-> t,
        cityLabel |-> << "Paris" >> ] :
        k \in UNION { [ 1 .. n -> SampleKinds ] : n \in 0 .. MaxAlertLen },
        t \in 0 .. MaxAlertNow }

InitAlerts ==
    /\ LoadedTheme(None, FALSE)
    /\ callArgs \in { Some(a) : a \in AlertInputs }
    /\ callResult = None
    /\ permission = "default"
    /\ swState = "unsupported"
    /\ now = 0
    /\ LoadedFavorites(None)
    /\ FreshSession

CallCheckAlerts ==
    /\ callArgs # None
    /\ callResult = None
    /\ callResult' = Some(checkAlerts([ hourly |-> The(callArgs).hourly ],
                                      The(callArgs).cityLabel,
                                      The(callArgs).t))
    /\ UNCHANGED << query, favorites, selectedCity, weather, lastUpdated,
                    isLoading, error, notificationState, storedFavorites,
                    permission, swState, permRequests, now, searches,
                    nextSearch, dispatches, nextDispatch, swChannel,
                    fgChannel, searchLog, writer, favLog, notifLog, callArgs >>
    /\ UNCHANGED themeVars

NextAlerts == CallCheckAlerts

SpecAlerts == InitAlerts /\ [][NextAlerts]_vars

\* The forecast window of (hourly, t): the samples after t that have fewer
\* than HOUR_LOOKAHEAD samples after t before them
WindowSamples(hourly, t) ==
    { i \in SamplesAfter(hourly, t) :
        Cardinality({ j \in SamplesAfter(hourly, t) : j < i })
            < HOUR_LOOKAHEAD }

IsRainAlert(call) == Head(call.title) = "Pluie attendue - "
IsHeatAlert(call) == Head(call.title) = "Chaleur a venir - "
IsRefresh(call) == Head(call.title) = "Meteo actualisee - "

CountOf(calls, P(_)) == Cardinality({ k \in DOMAIN calls : P(calls[k]) })

\* h is x / d rounded to the nearest integer, halves up
IsRounded(h, x, d) == (2 * h - 1) * d <= 2 * x /\ 2 * x < (2 * h + 1) * d

\* C6: a Rain alert is emitted iff some slice of the window has a rain
\* code; at most one is emitted; its lead time is max(1, round((t - now) /
\* 1 hour)) for the earliest such slice.
C6_RainRule ==
    callResult # None =>
        LET a == The(callArgs)
            calls == The(callResult)
            rainy == { i \in WindowSamples(a.hourly, a.t) :
                         a.hourly.weather_code[i] \in RAIN_CODES }
        IN  /\ CountOf(calls, IsRainAlert) = (IF rainy = { } THEN 0 ELSE 1)
            /\ \A k \in DOMAIN calls :
                  IsRainAlert(calls[k]) =>
                      \E i \in rainy :
                          /\ \A j \in rainy : i <= j
                          /\ \E h \in 0 .. MaxAlertLen + 1 :
                                /\ IsRounded(h, a.hourly.time[i] - a.t, HOUR)
                                /\ calls[k].body.a = (IF h < 1 THEN 1 ELSE h)

\* Two rain slices in the window, the earlier two hours ahead: one Rain
\* alert with lead time 2; and (another input) a rain slice a quarter of an
\* hour ahead gives lead time 1.
C6_Witness ==
    /\ callResult # None
    /\ LET a == The(callArgs)
           calls == The(callResult)
       IN  /\ a.t = 4
           /\ Len(a.hourly.time) = 4
           /\ a.hourly.weather_code[2] \notin RAIN_CODES
           /\ a.hourly.weather_code[3] \in RAIN_CODES
           /\ a.hourly.weather_code[4] \in RAIN_CODES
           /\ CountOf(calls, IsRainAlert) = 1
           /\ \E k \in DOMAIN calls :
                 IsRainAlert(calls[k]) /\ calls[k].body.a = 2

\* A rain slice less than 30 minutes ahead: lead time 1.
C6_WitnessFloor ==
    /\ callResult # None
    /\ LET a == The(callArgs)
           calls == The(callResult)
       IN  /\ a.t = 3
           /\ Len(a.hourly.time) >= 1
           /\ a.hourly.weather_code[1] \in RAIN_CODES
           /\ \E k \in DOMAIN calls :
                 IsRainAlert(calls[k]) /\ calls[k].body.a = 1

\* C7: a Heat alert is emitted iff some slice of the window is strictly
\* warmer than TEMP_THRESHOLD; at most one is emitted; it carries the
\* rounded temperature of the earliest such slice.
C7_HeatRule ==
    callResult # None =>
        LET a == The(callArgs)
            calls == The(callResult)
            warm == { i \in WindowSamples(a.hourly, a.t) :
                        a.hourly.temperature_2m[i] > 10 * TEMP_THRESHOLD }
        IN  /\ CountOf(calls, IsHeatAlert) = (IF warm = { } THEN 0 ELSE 1)
            /\ \A k \in DOMAIN calls :
                  IsHeatAlert(calls[k]) =>
                      \E i \in warm :
                          /\ \A j \in warm : i <= j
                          /\ IsRounded(calls[k].body.b,
                                       a.hourly.temperature_2m[i], 10)

\* A slice at the threshold, then one at 15.5 and a later warm one: one Heat
\* alert, carrying 16.
C7_Witness ==
    /\ callResult # None
    /\ LET a == The(callArgs)
           calls == The(callResult)
       IN  /\ a.t = 0
           /\ Len(a.hourly.time) = 3
           /\ a.hourly.temperature_2m[1] = 10 * TEMP_THRESHOLD
           /\ a.hourly.temperature_2m[2] = 155
           /\ a.hourly.temperature_2m[3] = 104
           /\ CountOf(calls, IsHeatAlert) = 1
           /\ \E k \in DOMAIN calls :
                 IsHeatAlert(calls[k]) /\ calls[k].body.b = 16

----------------------------------------------------------------------------
(* The application: searches, favorites, notifications *)

MaxSearches == 2
MaxNotifCalls == 2
MaxNow == 1

Paris ==
    [ name |-> << "Paris" >>, admin1 |-> << "Ile-de-France" >>,
      country |-> << "France" >>, latitude |-> 48, longitude |-> 2 ]
Lyon ==
    [ name |-> << "Lyon" >>, admin1 |-> << >>, country |-> << >>,
      latitude |-> 45, longitude |-> 4 ]

AsFavorite(result) ==
    [ name |-> formatCityName(result), lat |-> result.latitude,
      lon |-> result.longitude ]

\* What the user types
TypedTexts == { << " " >>, << " ", "paris" >> }

GeoResponses ==
    { [ kind |-> "networkError", results |-> None ],
      [ kind |-> "httpError", results |-> None ],
      [ kind |-> "ok", results |-> None ],
      [ kind |-> "ok", results |-> Some(<< >>) ],
      [ kind |-> "ok", results |-> Some(<< Paris >>) ],
      [ kind |-> "ok", results |-> Some(<< Lyon >>) ] }

\* A day whose samples are all in the past, and a day with showers and
\* 15.5 degrees two hours from time 0
PastDay ==
    [ current |-> [ temperature_2m |-> 84, wind_speed_10m |-> 126 ],
      hourly |-> HourlyOf(<< >>) ]
RainyDay ==
    [ current |-> [ temperature_2m |-> 95, wind_speed_10m |-> 205 ],
      hourly |-> HourlyOf(<< << 0, 100 >>, << 80, 155 >>, << 61, 95 >> >>) ]

WeatherResponses ==
    { [ kind |-> "networkError", data |-> None ],
      [ kind |-> "httpError", data |-> None ],
      [ kind |-> "ok", data |-> Some(PastDay) ],
      [ kind |-> "ok", data |-> Some(RainyDay) ] }

StoredLists == { None, Some(JSONStringify(<< AsFavorite(Paris) >>)) }

Init ==
    /\ LoadedTheme(None, FALSE)
    /\ permission \in { "unsupported", "default", "granted", "denied" }
    /\ swState = "unsupported"
    /\ now \in 0 .. MaxNow
    /\ \E stored \in StoredLists : LoadedFavorites(stored)
    /\ FreshSession
    /\ NoDirectCall

Next ==
    \/ \E text \in TypedTexts : setQuery(text)
    \/ nextSearch <= MaxSearches /\ handleSubmit
    \/ \E i \in DOMAIN favorites :
          nextSearch <= MaxSearches /\ FavoriteClick(i)
    \/ \E s \in DOMAIN searches, resp \in GeoResponses :
          GeocodeSettled(s, resp)
    \/ \E s \in DOMAIN searches, resp \in WeatherResponses :
          WeatherSettled(s, resp)

\* Sessions of searches, in a browser without service-worker support
Spec == Init /\ [][Next]_vars

InFlight == DOMAIN searches
LatestSearch == nextSearch - 1

\* C1: only the most recently initiated search's completion updates the
\* displayed state: once every search has completed, the displayed state
\* was last written by the most recently initiated one.
C1_LatestSearchWins ==
    (InFlight = { } /\ LatestSearch >= 1) => writer = LatestSearch

OkSearches == { s \in DOMAIN searchLog : searchLog[s].outcome = "ok" }

\* C8: a successful fetch hands the dispatcher exactly one refresh summary
\* plus at most one Rain and at most one Heat alert, and only the refresh
\* summary when no sample lies after `now`; a search that has not
\* succeeded hands it nothing.
C8_NotificationsPerFetch ==
    /\ \A s \in DOMAIN searchLog :
          LET calls == searchLog[s].calls
          IN  IF searchLog[s].outcome = "ok"
              THEN /\ CountOf(calls, IsRefresh) = 1
                   /\ CountOf(calls, IsRainAlert) <= 1
                   /\ CountOf(calls, IsHeatAlert) <= 1
                   /\ Len(calls) = CountOf(calls, IsRefresh)
                                   + CountOf(calls, IsRainAlert)
                                   + CountOf(calls, IsHeatAlert)
                   /\ SamplesAfter(The(searchLog[s].data).hourly,
                                   searchLog[s].at) = { }
                          => Len(calls) = 1
              ELSE calls = << >>
    /\ CountOf(notifLog, IsRefresh) = Cardinality(OkSearches)
    /\ CountOf(notifLog, IsRainAlert) <= Cardinality(OkSearches)
    /\ CountOf(notifLog, IsHeatAlert) <= Cardinality(OkSearches)
    /\ Len(notifLog) = CountOf(notifLog, IsRefresh)
                       + CountOf(notifLog, IsRainAlert)
                       + CountOf(notifLog, IsHeatAlert)

\* One fetch with an empty window that handed over the refresh summary
\* alone, and one fetch that handed over the summary, a Rain and a Heat
\* alert.
C8_Witness ==
    /\ \E s \in OkSearches :
          /\ SamplesAfter(The(searchLog[s].data).hourly, searchLog[s].at) = { }
          /\ Len(searchLog[s].calls) = 1
    /\ \E s \in OkSearches : Len(searchLog[s].calls) = 3
    /\ Len(notifLog) = 4

\* A failed search next to a successful one: two searches, one summary.
C8_WitnessFailed ==
    /\ \E s \in DOMAIN searchLog : searchLog[s].outcome = "failed"
    /\ Cardinality(OkSearches) = 1
    /\ CountOf(notifLog, IsRefresh) = 1

----------------------------------------------------------------------------
(* The favorites list: handleFavoriteSave and handleFavoriteRemove applied
   to lists read from the store *)

NumPlaces == 9

PlaceNames ==
    << "Amiens", "Brest", "Caen", "Dijon", "Evry", "Foix", "Gap", "Hyeres",
       "Ivry", "Jarny", "Kembs", "Laon" >>

\* Place n of the gazetteer; places differ in name
Place(n) == [ name |-> << PlaceNames[n] >>, lat |-> n, lon |-> n ]

FirstPlaces(k) == [ i \in 1 .. k |-> Place(i) ]

\* A namesake of place 1 elsewhere
Namesake == [ Place(1) EXCEPT !.lat = 0 ]

\* Lists the application wrote in an earlier session: empty, one short of
\* the capacity, at the capacity
FavStoredLists ==
    { Some(JSONStringify(FirstPlaces(k))) :
        k \in { 0, FAVORITES_CAPACITY - 1, FAVORITES_CAPACITY } }

\* On display: nothing, the newest favorite or a namesake of it, the
\* oldest favorite of a full list, a place that is no favorite
FavSelections ==
    { None, Some(Namesake), Some(Place(1)), Some(Place(FAVORITES_CAPACITY)),
      Some(Place(NumPlaces)) }

\* A session in which a search has put a city on display (or none has)
InitFav ==
    /\ LoadedTheme(None, FALSE)
    /\ permission = "default"
    /\ swState = "unsupported"
    /\ now = 0
    /\ \E stored \in FavStoredLists : LoadedFavorites(stored)
    /\ selectedCity \in FavSelections
    /\ query = (IF selectedCity = None THEN << >>
                ELSE The(selectedCity).name)
    /\ weather = (IF selectedCity = None THEN None ELSE Some(PastDay))
    /\ lastUpdated = (IF selectedCity = None THEN None ELSE Some(now))
    /\ isLoading = FALSE
    /\ error = None
    /\ notificationState = getNotificationState(permission)
    /\ permRequests = 0
    /\ searches = << >>
    /\ nextSearch = 1
    /\ dispatches = << >>
    /\ nextDispatch = 1
    /\ swChannel = { }
    /\ fgChannel = { }
    /\ searchLog = << >>
    /\ writer = 0
    /\ favLog = [ op |-> "none", name |-> << >>, city |-> None,
                  before |-> << >>, written |-> TRUE ]
    /\ notifLog = << >>
    /\ NoDirectCall

\* The store accepts every write.
NextFav ==
    \/ handleFavoriteSave(TRUE)
    \/ \E n \in 1 .. NumPlaces : handleFavoriteRemove(Place(n).name, TRUE)

SpecFav == InitFav /\ [][NextFav]_vars

DistinctNames(list) ==
    \A i, j \in DOMAIN list : list[i].name = list[j].name => i = j

\* C2: from an empty list or a stored well-formed one, after any sequence
\* of save and remove operations the favorites list has at most 8 entries
\* and no two entries share a name.
C2_FavoritesWellFormed ==
    Len(favorites) <= FAVORITES_CAPACITY /\ DistinctNames(favorites)

\* A full list reached by a save that evicted an entry
C2_Witness ==
    /\ favLog.op = "save"
    /\ Len(favLog.before) = FAVORITES_CAPACITY
    /\ favorites # favLog.before
    /\ Len(favorites) = FAVORITES_CAPACITY

\* C3: save leaves the list unchanged when the name is already a favorite;
\* otherwise the location becomes the first entry, the previous entries
\* follow in their order, and of a list of 8 exactly the last is evicted.
C3_SaveResult ==
    favLog.op = "save" =>
        LET before == favLog.before
            city == The(favLog.city)
        IN  IF \E i \in DOMAIN before : before[i].name = city.name
            THEN favorites = before
            ELSE /\ Len(favorites) =
                        (IF Len(before) = FAVORITES_CAPACITY
                         THEN FAVORITES_CAPACITY ELSE Len(before) + 1)
                 /\ favorites[1] = city
                 /\ \A k \in 2 .. Len(favorites) :
                       favorites[k] = before[k - 1]

\* A save of a new place into a list of 8: the last entry went, the others
\* moved down by one.
C3_Witness ==
    /\ favLog.op = "save"
    /\ Len(favLog.before) = FAVORITES_CAPACITY
    /\ ~HasName(favLog.before, favLog.name)
    /\ favorites[1].name = favLog.name
    /\ ~HasName(favorites, favLog.before[FAVORITES_CAPACITY].name)
    /\ favorites[FAVORITES_CAPACITY] = favLog.before[FAVORITES_CAPACITY - 1]

\* A save of a namesake of a favorite: the list stayed as it was.
C3_WitnessKnownName ==
    /\ favLog.op = "save"
    /\ favLog.city = Some(Namesake)
    /\ HasName(favLog.before, Namesake.name)
    /\ favorites = favLog.before

\* C4: after remove(name) no entry has that name, every entry with another
\* name is kept in the same relative order, and removing an absent name
\* leaves the list unchanged.
C4_RemoveResult ==
    favLog.op = "remove" =>
        LET before == favLog.before
            kept == { i \in DOMAIN before : before[i].name # favLog.name }
            rank(i) == Cardinality({ j \in kept : j <= i })
        IN  /\ ~HasName(favorites, favLog.name)
            /\ Len(favorites) = Cardinality(kept)
            /\ \A i \in kept : favorites[rank(i)] = before[i]
            /\ ~HasName(before, favLog.name) => favorites = before

\* A removal from the middle of a list of at least three
C4_Witness ==
    /\ favLog.op = "remove"
    /\ Len(favLog.before) >= 3
    /\ \E i \in 2 .. Len(favLog.before) - 1 :
          favLog.before[i].name = favLog.name
    /\ Len(favorites) = Len(favLog.before) - 1

\* A removal of a name that is no favorite
C4_WitnessAbsent ==
    /\ favLog.op = "remove"
    /\ favLog.before # << >>
    /\ ~HasName(favLog.before, favLog.name)
    /\ favorites = favLog.before

----------------------------------------------------------------------------
(* The dispatcher: permission requests, service-worker registration and
   the delivery of notifications *)

NotifyWeatherResponses ==
    { [ kind |-> "httpError", data |-> None ],
      [ kind |-> "ok", data |-> Some(PastDay) ] }

\* A session in any permission state, with a worker that is absent, being
\* registered, or active since an earlier visit, and one favorite
InitNotify ==
    /\ LoadedTheme(None, FALSE)
    /\ permission \in { "unsupported", "default", "granted", "denied" }
    /\ swState \in { "unsupported", "registering", "active" }
    /\ now = 0
    /\ LoadedFavorites(Some(JSONStringify(<< AsFavorite(Paris) >>)))
    /\ FreshSession
    /\ NoDirectCall

NextNotify ==
    \/ /\ Len(notifLog) + permRequests < MaxNotifCalls
       /\ handleNotificationRequest
    \/ \E answer \in { "granted", "denied", "default", "error" } :
          PermissionSettled(answer)
    \/ \E i \in DOMAIN favorites :
          /\ nextSearch + Len(notifLog) <= MaxNotifCalls
          /\ FavoriteClick(i)
    \/ \E s \in DOMAIN searches, resp \in NotifyWeatherResponses :
          WeatherSettled(s, resp)
    \/ \E d \in DOMAIN dispatches : ShowNotification(d)
    \/ \E d \in DOMAIN dispatches, result \in { "shown", "rejected" } :
          ShowSettled(d, result)
    \/ \E ok \in BOOLEAN : RegistrationSettled(ok)

SpecNotify == InitNotify /\ [][NextNotify]_vars

\* Promises that settle resume their handlers: a registration settles, a
\* resumed dispatcher calls showNotification, showNotification settles.
FairSpecNotify ==
    /\ SpecNotify
    /\ WF_vars(\E ok \in BOOLEAN : RegistrationSettled(ok))
    /\ WF_vars(\E d \in DOMAIN dispatches : ShowNotification(d))
    /\ WF_vars(\E d \in DOMAIN dispatches, result \in { "shown", "rejected" } :
                  ShowSettled(d, result))

BlockedMessage ==
    << "Les notifications sont bloquees par votre navigateur. Activez-les dans les reglages." >>

GrantedCalls ==
    { notifLog[k].id : k \in { j \in DOMAIN notifLog :
                                 notifLog[j].perm = "granted" } }

\* C9: dispatch is a silent no-op unless permission is Granted: nothing is
\* handed to the service worker or to the foreground channel while the
\* permission is Unsupported, Prompt or Denied, a call made then starts
\* nothing, and it sets no error.
C9_SilentWithoutPermission ==
    /\ permission # "granted" =>
          swChannel = { } /\ fgChannel = { } /\ DOMAIN dispatches = { }
    /\ \A e \in swChannel : e.perm = "granted" /\ e.id \in GrantedCalls
    /\ \A e \in fgChannel : e.perm = "granted" /\ e.id \in GrantedCalls
    /\ DOMAIN dispatches \subseteq GrantedCalls
    /\ \A k \in DOMAIN notifLog :
          notifLog[k].perm # "granted" => notifLog[k].id = 0
    /\ error # None =>
          \/ \E s \in DOMAIN searchLog : searchLog[s].outcome = "failed"
          \/ error = Some(BlockedMessage) /\ permission = "denied"

\* A successful fetch called the dispatcher while the permission was still
\* to be asked for: nothing was handed over, no error shows.
C9_Witness ==
    /\ permission = "default"
    /\ swState = "active"
    /\ \E k \in DOMAIN notifLog :
          notifLog[k].perm = "default" /\ IsRefresh(notifLog[k])
    /\ OkSearches # { }
    /\ error = None
    /\ swChannel = { } /\ fgChannel = { }

InForeground(d) == \E e \in fgChannel : e.id = d

\* The background channel is unavailable to dispatch d, or failed it
BackgroundDown(d) ==
    \/ swState \in { "unsupported", "failed" }
    \/ \E e \in swChannel : e.id = d /\ e.result = "rejected"

\* C10: whenever dispatch is called with permission Granted and the
\* background channel is unavailable (no service-worker support, or a
\* worker that never becomes ready because registration failed) or its
\* delivery fails, a foreground delivery attempt eventually happens.
C10_ForegroundFallback ==
    \A d \in 1 .. MaxNotifCalls :
        (d \in GrantedCalls /\ BackgroundDown(d)) ~> InForeground(d)

\* The same without the case of the failed registration
FallbackUnlessRegistrationFailed ==
    \A d \in 1 .. MaxNotifCalls :
        (d \in GrantedCalls
            /\ (swState = "unsupported"
                \/ \E e \in swChannel : e.id = d /\ e.result = "rejected"))
            ~> InForeground(d)

----------------------------------------------------------------------------
(* Direct derivation of the tags of two dispatches *)

MaxNameLen == 2

\* The characters of a location name
NameChars == { "a", "P", " " }

LocationNames == UNION { [ 1 .. n -> NameChars ] : n \in 0 .. MaxNameLen }

AlertKinds == { "rain", "heat", "refresh" }

\* The title each kind of dispatch is given for a location name, and the
\* tag the dispatcher derives from it
TitleOf(kind, name) ==
    CASE kind = "rain" ->
           RainNotification([ date |-> HOUR, temperature |-> 0,
                              weatherCode |-> 61, precipitation |-> None ],
                            name, 0).title
      [] kind = "heat" ->
           HeatNotification([ date |-> HOUR, temperature |-> 155,
                              weatherCode |-> 0, precipitation |-> None ],
                            name).title
      [] kind = "refresh" ->
           RefreshNotification(PastDay, [ name |-> name ]).title

TagOf(kind, name) ==
    NotificationOptions(TitleOf(kind, name),
                        [ text |-> "", a |-> 0, b |-> 0 ]).tag

TagInputs ==
    { [ first |-> [ kind |-> k1, name |-> n1 ],
        second |-> [ kind |-> k2, name |-> n2 ] ] :
        k1 \in AlertKinds, n1 \in LocationNames,
        k2 \in AlertKinds, n2 \in LocationNames }

InitTags ==
    /\ LoadedTheme(None, FALSE)
    /\ callArgs \in { Some(a) : a \in TagInputs }
    /\ callResult = None
    /\ permission = "default"
    /\ swState = "unsupported"
    /\ now = 0
    /\ LoadedFavorites(None)
    /\ FreshSession

CallTags ==
    /\ callArgs # None
    /\ callResult = None
    /\ callResult' =
           Some(<< TagOf(The(callArgs).first.kind, The(callArgs).first.name),
                   TagOf(The(callArgs).second.kind,
                         The(callArgs).second.name) >>)
    /\ UNCHANGED << query, favorites, selectedCity, weather, lastUpdated,
                    isLoading, error, notificationState, storedFavorites,
                    permission, swState, permRequests, now, searches,
                    nextSearch, dispatches, nextDispatch, swChannel,
                    fgChannel, searchLog, writer, favLog, notifLog, callArgs >>
    /\ UNCHANGED themeVars

NextTags == CallTags

SpecTags == InitTags /\ [][NextTags]_vars

\* C11: two dispatches of the same kind for the same location name get the
\* same tag; two dispatches for different location names get different
\* tags; dispatches of different kinds never get the same tag.
C11_TagDerivation ==
    callResult # None =>
        LET a == The(callArgs).first
            b == The(callArgs).second
            tags == The(callResult)
        IN  /\ (a.kind = b.kind /\ a.name = b.name) => tags[1] = tags[2]
            /\ a.name # b.name => tags[1] # tags[2]
            /\ a.kind # b.kind => tags[1] # tags[2]

\* A rain and a heat dispatch for one location, tagged apart
C11_Witness ==
    /\ callResult # None
    /\ The(callArgs).first = [ kind |-> "rain", name |-> << "P", "a" >> ]
    /\ The(callArgs).second = [ kind |-> "heat", name |-> << "P", "a" >> ]
    /\ The(callResult)[1] # The(callResult)[2]

\* Two rain dispatches for location names that differ in a trailing space
C11_WitnessNames ==
    /\ callResult # None
    /\ The(callArgs).first = [ kind |-> "rain", name |-> << "P" >> ]
    /\ The(callArgs).second = [ kind |-> "rain", name |-> << "P", " " >> ]
    /\ The(callResult)[1] # The(callResult)[2]

----------------------------------------------------------------------------
(* Searches, among them searches for a favorite with a blank name *)

\* A stored favorite whose name is two spaces
Blank == [ name |-> << " ", " " >>, lat |-> 0, lon |-> 0 ]

SearchStoredLists ==
    { None, Some(JSONStringify(<< AsFavorite(Paris), Blank >>)) }

InitSearch ==
    /\ LoadedTheme(None, FALSE)
    /\ permission = "denied"
    /\ swState = "unsupported"
    /\ now = 0
    /\ \E stored \in SearchStoredLists : LoadedFavorites(stored)
    /\ FreshSession
    /\ NoDirectCall

SpecSearch == InitSearch /\ [][Next]_vars

\* A submit of a whitespace-only field, a click on a blank-named favorite
BlankSubmit == handleSubmit /\ Trim(query) = << >>

BlankFavoriteClick ==
    \E i \in DOMAIN favorites :
        FavoriteClick(i) /\ Trim(favorites[i].name) = << >>

\* C12: a search whose input (typed query, or the favorite's name) is empty
\* or whitespace-only sets the validation message, issues no geocoding and
\* no weather request, and does not enter the loading state.
C12_ValidationFailsFast ==
    [][ (BlankSubmit \/ BlankFavoriteClick) =>
            /\ error' = Some(ValidationMessage)
            /\ searches' = searches
            /\ searchLog' = searchLog
            /\ nextSearch' = nextSearch
            /\ isLoading' = isLoading ]_vars

\* A whitespace-only field was submitted: the message shows, nothing was
\* requested, nothing loads
C12_Witness ==
    /\ Trim(query) = << >>
    /\ query # << >>
    /\ error = Some(ValidationMessage)
    /\ nextSearch = 1
    /\ DOMAIN searches = { }
    /\ ~isLoading

\* The blank-named favorite was clicked
C12_WitnessFavorite ==
    /\ query = Blank.name
    /\ favorites # << >>
    /\ error = Some(ValidationMessage)
    /\ nextSearch = 1
    /\ DOMAIN searches = { }
    /\ ~isLoading

\* The text part occurs in the text whole
Contains(whole, part) ==
    \E i \in 0 .. Len(whole) - Len(part) :
        SubSeq(whole, i + 1, i + Len(part)) = part

\* The geocoding request of search s settles with no result
EmptyResolution(s) ==
    \E resp \in GeoResponses :
        /\ resp.kind = "ok"
        /\ resp.results = None \/ resp.results = Some(<< >>)
        /\ GeocodeSettled(s, resp)

\* C13: when geocoding returns empty or absent results, the search ends
\* with an error message that names the trimmed query text, no weather
\* request is issued for that search, and the search does not change the
\* selected city.
C13_ResolutionFailure ==
    [][ \A s \in DOMAIN searches :
            EmptyResolution(s) =>
                /\ searchLog[s].value = Trim(searchLog[s].value)
                /\ error' # None
                /\ Contains(The(error'), searchLog[s].value)
                /\ ~Contains(The(error'), << " " >>)
                /\ s \notin DOMAIN searches'
                /\ searchLog'[s].outcome = "failed"
                /\ selectedCity' = selectedCity ]_vars

\* " paris" was submitted and not found: the message names "paris", and
\* the city selected by an earlier click on a favorite is still selected
C13_Witness ==
    /\ \E s \in DOMAIN searchLog :
          /\ searchLog[s].outcome = "failed"
          /\ ~searchLog[s].preset
          /\ searchLog[s].value = << "paris" >>
    /\ error = Some(<< "La ville \"", "paris", "\" est introuvable." >>)
    /\ selectedCity # None
    /\ DOMAIN searches = { }

\* The geocoding request of search s settles with a result
ResolutionSucceeds(s) ==
    \E resp \in GeoResponses :
        /\ geocodeCity(searches[s].value, resp).ok
        /\ GeocodeSettled(s, resp)

\* The weather request of search s fails
WeatherFailure(s) ==
    \E resp \in WeatherResponses :
        /\ ~fetchWeatherData(resp).ok
        /\ WeatherSettled(s, resp)

----------------------------------------------------------------------------
(* Permission requests *)

\* C15: at most one notification-permission request is outstanding at any
\* time, also when the notification control is activated again while a
\* previous request has not resolved.
C15_OneRequestOutstanding == permRequests <= 1

----------------------------------------------------------------------------
(* Persistence across restarts: theme and favorites *)

\* The page is loaded again: the component state is built from the stores,
\* and the mount effects persist what was read.  dark is the platform's
\* dark-mode preference at that time.
Restart(dark) ==
    /\ UNCHANGED << permission, swState, now >>
    /\ prefersDark' = dark
    /\ theme' = getStoredTheme(storedTheme, dark)
    /\ storedTheme' = Some(JSONStringifyText(<< theme' >>))
    /\ themeLog' = None
    /\ favorites' = readStorage(storedFavorites)
    /\ storedFavorites' = Some(JSONStringify(favorites'))
    /\ query' = << >>
    /\ selectedCity' = None
    /\ weather' = None
    /\ lastUpdated' = None
    /\ isLoading' = FALSE
    /\ error' = None
    /\ notificationState' = getNotificationState(permission)
    /\ permRequests' = 0
    /\ searches' = << >>
    /\ nextSearch' = 1
    /\ dispatches' = << >>
    /\ nextDispatch' = 1
    /\ swChannel' = { }
    /\ fgChannel' = { }
    /\ searchLog' = << >>
    /\ writer' = 0
    /\ favLog' = [ op |-> "none", name |-> << >>, city |-> None,
                   before |-> << >>, written |-> TRUE ]
    /\ notifLog' = << >>
    /\ UNCHANGED << callArgs, callResult >>

\* Lists and themes the stores hold from an earlier session
StoreLists ==
    { None, Some(JSONStringify(FirstPlaces(1))),
      Some(JSONStringify(FirstPlaces(FAVORITES_CAPACITY))) }

StoreThemes ==
    { None, Some(<< "dark" >>), Some(JSONStringifyText(<< "light" >>)),
      Some(JSONStringifyText(<< "dark" >>)) }

StoreSelections == { None, Some(Place(2)), Some(Place(NumPlaces)) }

InitStore ==
    /\ \E stored \in StoreThemes, dark \in BOOLEAN : LoadedTheme(stored, dark)
    /\ permission = "default"
    /\ swState = "unsupported"
    /\ now = 0
    /\ \E stored \in StoreLists : LoadedFavorites(stored)
    /\ selectedCity \in StoreSelections
    /\ query = (IF selectedCity = None THEN << >>
                ELSE The(selectedCity).name)
    /\ weather = (IF selectedCity = None THEN None ELSE Some(PastDay))
    /\ lastUpdated = (IF selectedCity = None THEN None ELSE Some(now))
    /\ isLoading = FALSE
    /\ error = None
    /\ notificationState = getNotificationState(permission)
    /\ permRequests = 0
    /\ searches = << >>
    /\ nextSearch = 1
    /\ dispatches = << >>
    /\ nextDispatch = 1
    /\ swChannel = { }
    /\ fgChannel = { }
    /\ searchLog = << >>
    /\ writer = 0
    /\ favLog = [ op |-> "none", name |-> << >>, city |-> None,
                  before |-> << >>, written |-> TRUE ]
    /\ notifLog = << >>
    /\ NoDirectCall

NextStore ==
    \/ \E checked \in BOOLEAN, accepted \in BOOLEAN :
          setTheme(checked, accepted)
    \/ \E accepted \in BOOLEAN : handleFavoriteSave(accepted)
    \/ \E n \in { 1, 2 }, accepted \in BOOLEAN :
          handleFavoriteRemove(Place(n).name, accepted)
    \/ \E dark \in BOOLEAN : Restart(dark)

SpecStore == InitStore /\ [][NextStore]_vars

\* C16: after an explicit toggle of the theme to T that was persisted, a
\* restart reads T whatever the platform's dark-mode preference is; the
\* platform preference decides only when no theme was ever persisted.
C16_ThemeRoundTrip ==
    [][ \A dark \in BOOLEAN :
            Restart(dark) =>
                /\ themeLog # None => theme' = The(themeLog)
                /\ storedTheme # None =>
                      theme' = getStoredTheme(storedTheme, ~dark) ]_vars

\* C20: favorites persistence is write-through: after any sequence of saves
\* and removals, once the store has taken the write of the last change, the
\* persisted value decodes to the in-memory list, in order, and a restart
\* loads that list.
C20_WriteThrough ==
    favLog.written =>
        /\ storedFavorites # None
        /\ JSONParse(The(storedFavorites)) = favorites
        /\ readStorage(storedFavorites) = favorites

\* A save into a full list was written: the store holds the new list
C20_Witness ==
    /\ favLog.op = "save"
    /\ favLog.written
    /\ Len(favLog.before) = FAVORITES_CAPACITY
    /\ favorites # favLog.before
    /\ readStorage(storedFavorites) = favorites
    /\ favorites[1] = Place(NumPlaces)

\* A removal was written after a write that the store refused
C20_WitnessRemove ==
    /\ favLog.op = "remove"
    /\ favLog.written
    /\ favorites # favLog.before
    /\ readStorage(storedFavorites) = favorites

----------------------------------------------------------------------------
(* Searches in flight *)

\* C17: at most one search is in flight at a time: the searches started (by
\* a submit or by a click on a favorite) and not yet completed number at
\* most 1.
C17_OneSearchInFlight == Cardinality(InFlight) <= 1

----------------------------------------------------------------------------
(* Failures of the notification platform *)

\* A rejected showNotification leaves the error state alone
DeliveryFailureIsSilent ==
    [][ \A d \in DOMAIN dispatches :
            ShowSettled(d, "rejected") => error' = error ]_vars

\* C18: a failure of the platform during an explicit permission request
\* surfaces an error message (the error state becomes non-empty), whereas
\* a failure during automatic delivery does not touch the error state.
C18_RequestFailureSurfaces ==
    [][ /\ PermissionSettled("error") => error' # None
        /\ \A d \in DOMAIN dispatches :
              ShowSettled(d, "rejected") => error' = error ]_vars

----------------------------------------------------------------------------
(* Errors and displayed weather *)

\* The geocoding request of search s fails (transport, status or no result)
ResolutionFailure(s) ==
    \E resp \in GeoResponses :
        /\ ~geocodeCity(searches[s].value, resp).ok
        /\ GeocodeSettled(s, resp)

\* A search ends in a validation, resolution or transport error
SearchEndsInError ==
    \/ BlankSubmit
    \/ BlankFavoriteClick
    \/ \E s \in DOMAIN searches : ResolutionFailure(s) \/ WeatherFailure(s)

\* Searches that end in a resolution or transport error clear the weather
FailedRequestClearsWeather ==
    [][ \A s \in DOMAIN searches :
            (ResolutionFailure(s) \/ WeatherFailure(s)) =>
                error' # None /\ weather' = None ]_vars

\* C19: every search that ends in a validation, resolution or transport
\* error leaves one error message displayed and no weather displayed, also
\* when weather of an earlier successful search was on display.
C19_NoErrorNextToWeather ==
    [][ SearchEndsInError => error' # None /\ weather' = None ]_vars

----------------------------------------------------------------------------
(* The permission state machine *)

\* A step of the notification button's handler, or of its continuation
\* after Notification.requestPermission()
PermissionHandlerStep ==
    \/ handleNotificationRequest
    \/ \E answer \in { "granted", "denied", "default", "error" } :
          PermissionSettled(answer)

\* C21: the permission prompt is requested only by the handler of the
\* notification button and only while the platform permission is Prompt
\* (not at startup, not during a search, not when the permission is
\* Unsupported, Granted or Denied); the tracked notification state changes
\* only in that handler and only from Prompt to Granted or to Denied, so
\* Unsupported, Granted and Denied are never left.
C21_PermissionStateMachine ==
    /\ permRequests = 0
    /\ [][ /\ permRequests' > permRequests =>
                 /\ handleNotificationRequest
                 /\ permission = "default"
                 /\ permRequests' = permRequests + 1
           /\ notificationState' # notificationState =>
                 /\ PermissionHandlerStep
                 /\ notificationState = "prompt"
                 /\ notificationState' \in { "granted", "denied" }
           /\ notificationState \in { "unsupported", "granted", "denied" } =>
                 notificationState' = notificationState ]_vars

\* The prompt was requested from the button and answered with a grant: the
\* tracked state went from Prompt to Granted
C21_Witness ==
    /\ notificationState = "granted"
    /\ permission = "granted"
    /\ permRequests = 0
    /\ \E k \in DOMAIN notifLog :
          notifLog[k].title = EnabledNotification.title

----------------------------------------------------------------------------
(* Foreground delivery after a background delivery *)

\* C22: foreground delivery is only a fallback: a dispatch whose delivery
\* through the service worker succeeded makes no delivery attempt through
\* the foreground channel.
C22_ForegroundOnlyFallback ==
    \A e \in swChannel : e.result = "shown" => ~InForeground(e.id)

----------------------------------------------------------------------------
(* Return to an interactive state *)

\* Every issued weather request resolves or rejects, every promise of the
\* dispatcher that can settle does
FairSpecInteractive ==
    /\ FairSpecNotify
    /\ WF_vars(\E s \in DOMAIN searches, resp \in NotifyWeatherResponses :
                  WeatherSettled(s, resp))

\* Every started search completes
SearchesComplete ==
    \A s \in 1 .. MaxNotifCalls : (s \in InFlight) ~> (s \notin InFlight)

\* With no search in flight the loading flag is false
IdleMeansNotLoading == InFlight = { } => ~isLoading

\* C23: every started search eventually completes; once no search is in
\* flight the loading flag is false; the loading flag is true in every
\* state in which some search is still in flight; and a failed
\* notification delivery neither keeps the loading flag set nor changes
\* the displayed weather nor sets an error.
C23_ReturnsToInteractive ==
    /\ SearchesComplete
    /\ [](InFlight = { } => ~isLoading)
    /\ [](InFlight # { } => isLoading)
    /\ [][ \A d \in DOMAIN dispatches :
               ShowSettled(d, "rejected") =>
                   /\ isLoading' = isLoading
                   /\ weather' = weather
                   /\ error' = error ]_vars

====
